---- MODULE Spec2Model ----
(***************************************************************************)
(* Model of the product picker of monk-commerce-assignment                 *)
(* (src/src/components/ProductPicker.tsx, src/src/services/api.ts).        *)
(*                                                                         *)
(* The picker is a React component that is mounted once, closed.  Its      *)
(* state is the set of useState cells; every handler, effect and promise   *)
(* continuation runs to completion and its setState calls are committed    *)
(* together, so each one is one action.  The only suspension point is the  *)
(* await inside loadProducts: a call that passed the guard stays in        *)
(* `inflight` until the fetch collaborator answers.                        *)
(***************************************************************************)
EXTENDS Integers, Sequences, FiniteSets, TLC

\* ------------------------------------------------------------------ bounds
\* Number of fetches the picker may issue in one behaviour.
MaxFetches == 3

\* Longest list of loaded groups the row index is asked about.
MaxRowGroups == 3
MaxRows == 4
MaxAppRows == 2
MaxKeys == 2
MaxNow == 2

\* Longest list of rows whose discounts are edited.
MaxDiscountRows == 2

\* ------------------------------------------------------- program constants
\* limit passed to fetchProductsApi and compared with the page length.
PAGE_LIMIT == 10

PRODUCT_HEADER_HEIGHT == 56

VARIANT_ROW_HEIGHT == 60

LOADER_HEIGHT == 50

NULL == "null"

\* A discount amount is <<n>>; null, the amount of no discount, is <<>>.
NoAmount == <<>>

LOAD_ERROR == "Failed to load products. Please try again."

\* ------------------------------------------------------------------ inputs
\* Search terms the operator can type; "" is the initial and the reset term.
Terms == {"", "a", "b"}

\* Remote group ids answered for a term: every term has its own id range, so
\* the groups of two queries can be told apart.
TermBase(t) == CASE t = "" -> 0 [] t = "a" -> 100 [] OTHER -> 200

TermOfId(id) == CASE id < 100 -> "" [] id < 200 -> "a" [] OTHER -> "b"

Range(a, b) == [i \in 1..(b - a + 1) |-> a + i - 1]

\* Pages the remote endpoint may answer for a term, whatever page was asked:
\* a full page, a short page of 4 further groups, a page overlapping both,
\* a page repeating an id within itself, and the empty page.
CatalogPages(t) ==
  LET B == TermBase(t) IN
    { <<>>,
      Range(B + 1, B + PAGE_LIMIT),
      Range(B + PAGE_LIMIT + 1, B + PAGE_LIMIT + 4),
      Range(B + PAGE_LIMIT - 1, B + PAGE_LIMIT + 2),
      <<B + 1, B + 1>> }

\* The variants the endpoint delivers with a remote group: none to three,
\* numbered from 1; every variant carries product_id = the id of its group.
VariantsOf(id) == Range(1, id % 4)

\* What the HTTP call does: it fails (network/HTTP error, or the API key is
\* missing) or it delivers a page.
Outcomes(t) ==
  {[failed |-> TRUE, data |-> <<>>]} \cup
  {[failed |-> FALSE, data |-> p] : p \in CatalogPages(t)}

\* ------------------------------------------------------------------- state
VARIABLES
  isOpen,               \* prop isOpen of ProductPicker (App.isPickerOpen)
  searchTerm,           \* useState('')
  debouncedSearchTerm,  \* useDebounce(searchTerm, 500)
  products,             \* useState<ApiProduct[]>([]): sequence of remote ids
  selectedVariants,     \* useState<Record<string, SelectedVariantInfo>>({})
  page,                 \* useState(1)
  isLoading,            \* useState(false)
  hasMore,              \* useState(true)
  error,                \* useState<string | null>(null)
  inflight,             \* loadProducts calls suspended at the await
  nextSeq,              \* history: number of the next fetch to be issued
  seqAtReset,           \* history: nextSeq when pagination was last reset
  seqAtClose,           \* history: nextSeq when the picker was last closed
  lastAnswered,         \* history: the fetch answered last, with its answer
  epochRef,             \* history: pages answered since the last reset,
                        \*   concatenated, repeated ids dropped
  epochSequential,      \* history: since the last reset no fetch was issued
                        \*   while another one of that period was in flight
  lastEvent,            \* history: the handler that ran last
  selectedProducts,     \* App: useState<Product[]>([])
  editingProductIndex,  \* App: useState<number | null>(null)
  nextKey,              \* crypto.randomUUID(): the next fresh value
  clock,                \* Date.now(): the reading of the clock
  rowQuery,             \* the last position asked of Row and getItemSize,
                        \*   with both answers
  prevSelection,        \* history: selectedVariants before the last two
                        \*   handlers
  lastCall              \* history: the last handler of the selection or the
                        \*   list, with its arguments

paginationVars == <<products, page, isLoading, hasMore, error>>

pickerVars == <<isOpen, searchTerm, debouncedSearchTerm, products,
                selectedVariants, page, isLoading, hasMore, error, inflight>>

historyVars == <<nextSeq, seqAtReset, seqAtClose, lastAnswered, epochRef,
                 epochSequential, lastEvent>>

appVars == <<selectedProducts, editingProductIndex, nextKey, clock>>

callVars == <<prevSelection, lastCall>>

\* Everything that is not state of the pagination of the picker.
outsidePicker == <<appVars, rowQuery, callVars>>

vars == <<pickerVars, historyVars, appVars, rowQuery, callVars>>

NoQuery == [index |-> -1]

\* editingProductIndex = null; row indexes count from 0.
NoIndex == -1

NoCall == [op |-> "none", again |-> FALSE, key |-> NULL]

EmptySelection == <<>>

\* selectedVariants before the last handler (one) and before the handler
\* that ran before it (two).
NoHistory == [one |-> EmptySelection, two |-> EmptySelection]

\* ----------------------------------------------------------------- helpers
\* services/api.ts fetchProducts: every failure is caught and turned into an
\* empty page; the promise never rejects.
fetchProducts(outcome) ==
  IF outcome.failed
    THEN [threw |-> FALSE, data |-> <<>>]
    ELSE [threw |-> FALSE, data |-> outcome.data]

\* setProducts((prev) => [...prev, ...fetched.filter(fp => !prev.some(p => p.id === fp.id))])
AppendNew(prev, fetched) ==
  prev \o SelectSeq(fetched, LAMBDA fp : ~(\E i \in DOMAIN prev : prev[i] = fp))

\* setHasMore(fetchedProducts.length === 10)
NextHasMore_NonEmpty(fetched) == Len(fetched) > 0

NextHasMore(fetched) == Len(fetched) = PAGE_LIMIT

\* Reference value of claim C5, not code: the ids of `fetched` are appended
\* to `ref` one by one, an id that is already there is dropped.
RECURSIVE ConcatMinusDuplicates(_, _)
ConcatMinusDuplicates(ref, fetched) ==
  IF fetched = <<>> THEN ref
  ELSE ConcatMinusDuplicates(
         IF \E i \in DOMAIN ref : ref[i] = Head(fetched)
           THEN ref ELSE Append(ref, Head(fetched)),
         Tail(fetched))

NoAnswer == [seq |-> 0]

\* loadProducts up to its await: the guard, setIsLoading(true), setError(null)
\* and the call of fetchProductsApi(term, currentPage, 10).
loadProducts(term, currentPage, reset) ==
  IF isLoading \/ (~hasMore /\ ~reset)
    THEN UNCHANGED <<isLoading, error, inflight, nextSeq>>
    ELSE /\ isLoading' = TRUE
         /\ error' = NULL
         /\ inflight' = inflight \cup
              {[seq |-> nextSeq, term |-> term,
                currentPage |-> currentPage, reset |-> reset]}
         /\ nextSeq' = nextSeq + 1

\* The debounce timer has a value to deliver.
useDebouncePending == debouncedSearchTerm # searchTerm

\* <InfiniteLoader> is part of the rendered dialog.
LoaderRendered ==
  isOpen /\ error = NULL /\ (Len(products) > 0 \/ isLoading \/ hasMore)

\* ------------------------------------------------------------------- Init
\* Mount with isOpen = false: the effect on debouncedSearchTerm resets and
\* calls loadProducts('', 1, true), then the effect on isOpen resets again and
\* sets isLoading to false; the fetch of the first effect is in flight.
Init ==
  /\ isOpen = FALSE
  /\ searchTerm = ""
  /\ debouncedSearchTerm = ""
  /\ products = <<>>
  /\ selectedVariants = EmptySelection
  /\ page = 1
  /\ isLoading = FALSE
  /\ hasMore = TRUE
  /\ error = NULL
  /\ inflight = {[seq |-> 1, term |-> "", currentPage |-> 1, reset |-> TRUE]}
  /\ nextSeq = 2
  /\ seqAtReset = 1
  /\ seqAtClose = 0
  /\ lastAnswered = NoAnswer
  /\ epochRef = <<>>
  /\ epochSequential = TRUE
  /\ lastEvent = "mount"
  /\ selectedProducts = <<>>
  /\ editingProductIndex = NoIndex
  /\ nextKey = 1
  /\ clock = 1
  /\ rowQuery = NoQuery
  /\ prevSelection = NoHistory
  /\ lastCall = NoCall

\* ---------------------------------------------------------------- actions
\* App.handleEditProduct: the picker is shown.
OpenPicker ==
  /\ ~isOpen
  /\ isOpen' = TRUE
  /\ lastEvent' = "open"
  /\ UNCHANGED <<searchTerm, debouncedSearchTerm, products, selectedVariants,
                 page, isLoading, hasMore, error, inflight,
                 nextSeq, seqAtReset, seqAtClose, lastAnswered,
                 epochRef, epochSequential>>

\* App.handleClosePicker followed by the effect on isOpen.
ClosePicker ==
  /\ isOpen
  /\ isOpen' = FALSE
  /\ searchTerm' = ""
  /\ products' = <<>>
  /\ selectedVariants' = EmptySelection
  /\ page' = 1
  /\ hasMore' = TRUE
  /\ isLoading' = FALSE
  /\ error' = NULL
  /\ seqAtReset' = nextSeq
  /\ seqAtClose' = nextSeq
  /\ epochRef' = <<>>
  /\ epochSequential' = TRUE
  /\ lastEvent' = "close"
  /\ UNCHANGED <<debouncedSearchTerm, inflight, nextSeq, lastAnswered>>

\* The operator edits the search box of the open dialog.
handleSearchChange(t) ==
  /\ isOpen
  /\ t # searchTerm
  /\ searchTerm' = t
  /\ lastEvent' = "type"
  /\ UNCHANGED <<isOpen, debouncedSearchTerm, products, selectedVariants,
                 page, isLoading, hasMore, error, inflight,
                 nextSeq, seqAtReset, seqAtClose, lastAnswered,
                 epochRef, epochSequential>>

\* The debounced term changes and the effect on it runs: reset, then
\* loadProducts(debouncedSearchTerm, 1, true) with the rendered isLoading.
DebouncedTermEffect ==
  /\ useDebouncePending
  /\ nextSeq <= MaxFetches
  /\ debouncedSearchTerm' = searchTerm
  /\ products' = <<>>
  /\ page' = 1
  /\ hasMore' = TRUE
  /\ selectedVariants' = EmptySelection
  /\ loadProducts(searchTerm, 1, TRUE)
  /\ seqAtReset' = nextSeq
  /\ epochRef' = <<>>
  /\ epochSequential' = TRUE
  /\ lastEvent' = "query"
  /\ UNCHANGED <<isOpen, searchTerm, seqAtClose, lastAnswered>>

\* loadMoreItems without its early return, fetching on every call.
loadMoreItems_Unguarded ==
  /\ LoaderRendered
  /\ nextSeq <= MaxFetches
  /\ isLoading' = TRUE
  /\ error' = NULL
  /\ inflight' = inflight \cup
       {[seq |-> nextSeq, term |-> debouncedSearchTerm,
         currentPage |-> page, reset |-> FALSE]}
  /\ nextSeq' = nextSeq + 1
  /\ epochSequential' =
       (epochSequential /\ ~(\E g \in inflight : g.seq >= seqAtReset))
  /\ lastEvent' = "loadMore"
  /\ UNCHANGED <<isOpen, searchTerm, debouncedSearchTerm, products,
                 selectedVariants, page, hasMore, seqAtReset, seqAtClose,
                 lastAnswered, epochRef>>

\* InfiniteLoader calls loadMoreItems.
loadMoreItems ==
  /\ LoaderRendered
  /\ (isLoading \/ ~hasMore) \/ nextSeq <= MaxFetches
  /\ IF isLoading \/ ~hasMore
       THEN UNCHANGED <<isLoading, error, inflight, nextSeq>>
       ELSE loadProducts(debouncedSearchTerm, page, FALSE)
  /\ epochSequential' =
       IF nextSeq' = nextSeq THEN epochSequential
       ELSE epochSequential /\ ~(\E g \in inflight : g.seq >= seqAtReset)
  /\ lastEvent' = IF isLoading \/ ~hasMore THEN "loadMoreSkipped"
                                            ELSE "loadMore"
  /\ UNCHANGED <<isOpen, searchTerm, debouncedSearchTerm, products,
                 selectedVariants, page, hasMore, seqAtReset, seqAtClose,
                 lastAnswered, epochRef>>

\* loadProducts after its await without the finally block: isLoading is left
\* as it is.
ResolveFetch_NoFinally(f, outcome) ==
  LET r == fetchProducts(outcome) IN
    /\ f \in inflight
    /\ inflight' = inflight \ {f}
    /\ IF r.threw
         THEN /\ error' = LOAD_ERROR
              /\ UNCHANGED <<products, hasMore, page>>
         ELSE /\ products' = IF f.reset THEN r.data
                                        ELSE AppendNew(products, r.data)
              /\ hasMore' = NextHasMore(r.data)
              /\ page' = f.currentPage + 1
              /\ UNCHANGED error
    /\ lastAnswered' = [seq |-> f.seq, term |-> f.term,
                        currentPage |-> f.currentPage, reset |-> f.reset,
                        failed |-> outcome.failed, data |-> r.data]
    /\ epochRef' = IF f.seq >= seqAtReset
                     THEN ConcatMinusDuplicates(epochRef, r.data)
                     ELSE epochRef
    /\ lastEvent' = "resolve"
    /\ UNCHANGED <<isOpen, searchTerm, debouncedSearchTerm, selectedVariants,
                   nextSeq, seqAtReset, seqAtClose, epochSequential,
                   isLoading>>

\* The fetch of call f is answered and loadProducts continues after its await.
ResolveFetch(f, outcome) ==
  LET r == fetchProducts(outcome) IN
    /\ f \in inflight
    /\ inflight' = inflight \ {f}
    /\ IF r.threw
         THEN /\ error' = LOAD_ERROR
              /\ UNCHANGED <<products, hasMore, page>>
         ELSE /\ products' = IF f.reset THEN r.data
                                        ELSE AppendNew(products, r.data)
              /\ hasMore' = NextHasMore(r.data)
              /\ page' = f.currentPage + 1
              /\ UNCHANGED error
    /\ isLoading' = FALSE
    /\ lastAnswered' = [seq |-> f.seq, term |-> f.term,
                        currentPage |-> f.currentPage, reset |-> f.reset,
                        failed |-> outcome.failed, data |-> r.data]
    /\ epochRef' = IF f.seq >= seqAtReset
                     THEN ConcatMinusDuplicates(epochRef, r.data)
                     ELSE epochRef
    /\ lastEvent' = "resolve"
    /\ UNCHANGED <<isOpen, searchTerm, debouncedSearchTerm, selectedVariants,
                   nextSeq, seqAtReset, seqAtClose, epochSequential>>

\* The picker under any parent: the parent shows and hides it at will.
Next ==
  \/ OpenPicker /\ UNCHANGED outsidePicker
  \/ ClosePicker /\ UNCHANGED outsidePicker
  \/ \E t \in Terms : handleSearchChange(t) /\ UNCHANGED outsidePicker
  \/ DebouncedTermEffect /\ UNCHANGED outsidePicker
  \/ loadMoreItems /\ UNCHANGED outsidePicker
  \/ \E f \in inflight : \E o \in Outcomes(f.term) :
       ResolveFetch(f, o) /\ UNCHANGED outsidePicker

Spec == Init /\ [][Next]_vars

\* The endpoint answers: a fetch in flight does not stay in flight forever.
FetchAnswered ==
  \E f \in inflight : \E o \in Outcomes(f.term) :
    ResolveFetch(f, o) /\ UNCHANGED outsidePicker

\* The picker with an endpoint that answers every fetch.
SpecAnswering == Init /\ [][Next]_vars /\ WF_vars(FetchAnswered)

\* ------------------------------------------------------------- row index
\* useMemo of itemCount: one row per group header and per variant, plus the
\* loader row while hasMore.
RECURSIVE CountRows(_, _)
CountRows(prods, count) ==
  IF prods = <<>> THEN count
  ELSE CountRows(Tail(prods), count + 1 + Len(VariantsOf(Head(prods))))

itemCount_NoLoader(prods, more) == CountRows(prods, 0)

itemCount(prods, more) ==
  LET count == CountRows(prods, 0) IN IF more THEN count + 1 ELSE count

\* The for loop of Row over products[i..]: the item at `index`, if any.
RECURSIVE RowScan(_, _, _, _)
RowScan(prods, i, cumulativeCount, index) ==
  IF i > Len(prods) THEN [type |-> "null"]
  ELSE IF index = cumulativeCount THEN [type |-> "product", product |-> i]
  ELSE LET afterHeader == cumulativeCount + 1
           variantIndex == index - afterHeader
           n == Len(VariantsOf(prods[i]))
       IN IF variantIndex >= 0 /\ variantIndex < n
            THEN [type |-> "variant", product |-> i, variant |-> variantIndex]
            ELSE RowScan(prods, i + 1, afterHeader + n, index)

\* Row that takes the header of a group for its first variant.
RECURSIVE RowScan_OffByOne(_, _, _, _)
RowScan_OffByOne(prods, i, cumulativeCount, index) ==
  IF i > Len(prods) THEN [type |-> "null"]
  ELSE LET variantIndex == index - cumulativeCount
           n == Len(VariantsOf(prods[i]))
       IN IF variantIndex >= 0 /\ variantIndex < n
            THEN [type |-> "variant", product |-> i, variant |-> variantIndex]
            ELSE IF index = cumulativeCount + n
              THEN [type |-> "product", product |-> i]
              ELSE RowScan_OffByOne(prods, i + 1, cumulativeCount + 1 + n,
                                    index)

Row_OffByOne(prods, more, count, index) ==
  IF more /\ index = count - 1 THEN [type |-> "loader"]
  ELSE LET item == RowScan_OffByOne(prods, 1, 0, index) IN
         IF item.type = "null" THEN [type |-> "error"] ELSE item

\* Row without its `if (!item)` branch.
Row_NoItemCheck(prods, more, count, index) ==
  IF more /\ index = count - 1 THEN [type |-> "loader"]
  ELSE RowScan(prods, 1, 0, index)

\* Row: what is rendered at `index` (0-based): the loader, a group header, a
\* variant, or "Error: Item not found".  Groups are named by their position
\* in products, variants by their 0-based position in the group.
Row(prods, more, count, index) ==
  IF more /\ index = count - 1 THEN [type |-> "loader"]
  ELSE LET item == RowScan(prods, 1, 0, index) IN
         IF item.type = "null" THEN [type |-> "error"] ELSE item

\* The for loop of getItemSize over products[i..].
RECURSIVE SizeScan(_, _, _, _)
SizeScan(prods, i, cumulativeCount, index) ==
  IF i > Len(prods) THEN VARIANT_ROW_HEIGHT
  ELSE IF index = cumulativeCount THEN PRODUCT_HEADER_HEIGHT
  ELSE LET afterHeader == cumulativeCount + 1
           n == Len(VariantsOf(prods[i]))
       IN IF index < afterHeader + n
            THEN VARIANT_ROW_HEIGHT
            ELSE SizeScan(prods, i + 1, afterHeader + n, index)

\* getItemSize without the loader row.
getItemSize_NoLoader(prods, more, count, index) == SizeScan(prods, 1, 0, index)

getItemSize(prods, more, count, index) ==
  IF more /\ index = count - 1 THEN LOADER_HEIGHT
  ELSE SizeScan(prods, 1, 0, index)

\* Positions the list may be asked about: every row and two past the end.
RowPositions == 0..(itemCount(products, hasMore) + 1)

\* The virtualised list asks for the row and the height at position p.
QueryRow(p) ==
  /\ LoaderRendered
  /\ p \in RowPositions
  /\ LET count == itemCount(products, hasMore) IN
       rowQuery' = [index |-> p, count |-> count,
                    item |-> Row(products, hasMore, count, p),
                    size |-> getItemSize(products, hasMore, count, p)]
  /\ UNCHANGED <<pickerVars, historyVars, appVars, callVars>>

\* Lists of at most n loaded groups with ids 1..4 (one, two, three and no
\* variant).
RECURSIVE SeqsUpTo(_, _)
SeqsUpTo(S, n) ==
  IF n = 0 THEN {<<>>}
  ELSE LET shorter == SeqsUpTo(S, n - 1) IN
         shorter \cup {Append(q, x) : q \in shorter, x \in S}

\* The open picker showing some loaded window, nothing in flight.
InitRows ==
  /\ isOpen = TRUE
  /\ searchTerm = ""
  /\ debouncedSearchTerm = ""
  /\ products \in SeqsUpTo(1..4, MaxRowGroups)
  /\ hasMore \in BOOLEAN
  /\ selectedVariants = EmptySelection
  /\ page = 2
  /\ isLoading = FALSE
  /\ error = NULL
  /\ inflight = {}
  /\ nextSeq = 2
  /\ seqAtReset = 1
  /\ seqAtClose = 0
  /\ lastAnswered = NoAnswer
  /\ epochRef = <<>>
  /\ epochSequential = TRUE
  /\ lastEvent = "open"
  /\ selectedProducts = <<>>
  /\ editingProductIndex = NoIndex
  /\ nextKey = 1
  /\ clock = 1
  /\ rowQuery = NoQuery
  /\ prevSelection = NoHistory
  /\ lastCall = NoCall

NextRows == \E p \in RowPositions : QueryRow(p)

SpecRows == InitRows /\ [][NextRows]_vars

\* ---------------------------------------------------------- selection set
\* selectedVariants is a JavaScript object with non-numeric string keys: its
\* entries are kept in insertion order, assigning to a key that exists keeps
\* its place, delete removes it.  It is modelled as the sequence of its
\* entries.

\* `${variant.product_id}-${variant.id}`
LocalVariantId(productId, variantId) == <<productId, variantId>>

Keys(sel) == {sel[i].localId : i \in DOMAIN sel}

EntryOf(sel, key) == sel[CHOOSE i \in DOMAIN sel : sel[i].localId = key]

SelectedVariantInfo(productId, variantId, discountType, discountValue) ==
  [localId |-> LocalVariantId(productId, variantId),
   product_id |-> productId, id |-> variantId,
   discountType |-> discountType, discountValue |-> discountValue]

\* delete newSelected[key]
DeleteKey(sel, key) == SelectSeq(sel, LAMBDA e : e.localId # key)

\* newSelected[entry.localId] = entry
SetKey(sel, entry) ==
  IF entry.localId \in Keys(sel)
    THEN [i \in DOMAIN sel |->
            IF sel[i].localId = entry.localId THEN entry ELSE sel[i]]
    ELSE Append(sel, entry)

\* The updater of handleVariantSelectToggle that only ever adds.
ToggleVariant_AddOnly(prev, productId, variantId) ==
  SetKey(prev, SelectedVariantInfo(productId, variantId, NULL, NoAmount))

\* The updater of handleVariantSelectToggle that starts from an empty object
\* when it adds: a click selects one variant and drops the others.
ToggleVariant_Single(prev, productId, variantId) ==
  IF LocalVariantId(productId, variantId) \in Keys(prev)
    THEN DeleteKey(prev, LocalVariantId(productId, variantId))
    ELSE <<SelectedVariantInfo(productId, variantId, NULL, NoAmount)>>

\* The updater of handleVariantSelectToggle.
ToggleVariant(prev, productId, variantId) ==
  IF LocalVariantId(productId, variantId) \in Keys(prev)
    THEN DeleteKey(prev, LocalVariantId(productId, variantId))
    ELSE SetKey(prev, SelectedVariantInfo(productId, variantId, NULL, NoAmount))

\* allVariantIds of a remote group.
AllVariantIds(productId) ==
  {LocalVariantId(productId, VariantsOf(productId)[i]) :
     i \in DOMAIN VariantsOf(productId)}

RECURSIVE DeleteAll(_, _)
DeleteAll(sel, variantIds) ==
  IF variantIds = <<>> THEN sel
  ELSE DeleteAll(DeleteKey(sel, Head(variantIds)), Tail(variantIds))

\* product.variants.forEach of the SELECT ALL branch; prevSelected is the
\* selection the updater was called with.
RECURSIVE SetAll(_, _, _, _)
SetAll(sel, prevSelected, productId, variants) ==
  IF variants = <<>> THEN sel
  ELSE LET key == LocalVariantId(productId, Head(variants))
           dt == IF key \in Keys(prevSelected)
                   THEN EntryOf(prevSelected, key).discountType ELSE NULL
           dv == IF key \in Keys(prevSelected)
                   THEN EntryOf(prevSelected, key).discountValue
                   ELSE NoAmount
       IN SetAll(SetKey(sel, SelectedVariantInfo(productId, Head(variants),
                                                 dt, dv)),
                 prevSelected, productId, Tail(variants))

\* The updater of an earlier revision, which never deselects.
SelectAllVariants_AddOnly(prevSelected, productId) ==
  SetAll(prevSelected, prevSelected, productId, VariantsOf(productId))

\* The updater with areAllSelected computed by some() instead of every().
SelectAllVariants_SomeSelected(prevSelected, productId) ==
  LET areAllSelected == AllVariantIds(productId) \cap Keys(prevSelected) # {}
  IN IF areAllSelected
       THEN DeleteAll(prevSelected,
                      [i \in DOMAIN VariantsOf(productId) |->
                         LocalVariantId(productId, VariantsOf(productId)[i])])
       ELSE SetAll(prevSelected, prevSelected, productId,
                   VariantsOf(productId))

\* The updater of handleSelectAllProductVariants.
SelectAllVariants(prevSelected, productId) ==
  LET areAllSelected == AllVariantIds(productId) \subseteq Keys(prevSelected)
  IN IF areAllSelected
       THEN DeleteAll(prevSelected,
                      [i \in DOMAIN VariantsOf(productId) |->
                         LocalVariantId(productId, VariantsOf(productId)[i])])
       ELSE SetAll(prevSelected, prevSelected, productId,
                   VariantsOf(productId))

\* Object.values of the accumulator of handleAddSelected: its keys are the
\* numeric product ids, which JavaScript enumerates in ascending order.
RECURSIVE Ascending(_)
Ascending(ids) ==
  IF ids = {} THEN <<>>
  ELSE LET least == CHOOSE x \in ids : \A y \in ids : x <= y
       IN <<least>> \o Ascending(ids \ {least})

\* The group the reduce of handleAddSelected builds for one product id.
SelectedRow(sel, productId, now) ==
  [localId |-> <<"sel", "-", productId, now>>,
   apiId |-> productId,
   variants |-> SelectSeq(sel, LAMBDA e : e.product_id = productId),
   discountType |-> NULL,
   discountValue |-> NoAmount,
   showVariants |-> FALSE,
   isPlaceholder |-> FALSE]

\* handleAddSelected that opens a row for every entry.
variantsByProduct_RowPerEntry(sel, now) ==
  [i \in DOMAIN sel |->
     [localId |-> <<"sel", "-", sel[i].product_id, now>>,
      apiId |-> sel[i].product_id,
      variants |-> <<sel[i]>>,
      discountType |-> NULL, discountValue |-> NoAmount,
      showVariants |-> FALSE, isPlaceholder |-> FALSE]]

\* handleAddSelected with an accumulator that keeps the order in which its
\* keys were set, as a Map does: the groups come in the order in which their
\* first entry was selected.
variantsByProduct_InsertionOrder(sel, now) ==
  LET firsts == {i \in DOMAIN sel :
                   \A k \in 1..(i - 1) : sel[k].product_id # sel[i].product_id}
      nth(g) == CHOOSE i \in firsts :
                  Cardinality({k \in firsts : k <= i}) = g
  IN [g \in 1..Cardinality(firsts) |->
        SelectedRow(sel, sel[nth(g)].product_id, now)]

\* Object.values(variantsByProduct) of handleAddSelected.
variantsByProduct(sel, now) ==
  LET ids == Ascending({sel[i].product_id : i \in DOMAIN sel})
  IN [g \in DOMAIN ids |-> SelectedRow(sel, ids[g], now)]

\* draft.splice(index, 0, ...items): the items go in and no row goes out.
SpliceReplace_Insert(list, index, items) ==
  IF index >= Len(list) THEN list \o items
  ELSE SubSeq(list, 1, index) \o items \o SubSeq(list, index + 1, Len(list))

\* draft.splice(index, 1, ...items), index counted from 0.
SpliceReplace(list, index, items) ==
  IF index >= Len(list) THEN list \o items
  ELSE SubSeq(list, 1, index) \o items \o SubSeq(list, index + 2, Len(list))

\* History of a handler of the selection.
SelectionCall(call) ==
  /\ prevSelection' = [one |-> selectedVariants, two |-> prevSelection.one]
  /\ lastCall' = [call EXCEPT !.again =
                    /\ lastCall.op = call.op
                    /\ lastCall.key = call.key]

\* A click on a variant row of the picker.
handleVariantSelectToggle(g, v) ==
  /\ LoaderRendered
  /\ g \in DOMAIN products
  /\ v \in DOMAIN VariantsOf(products[g])
  /\ selectedVariants' =
       ToggleVariant(selectedVariants, products[g], VariantsOf(products[g])[v])
  /\ SelectionCall([op |-> "toggle", again |-> FALSE,
                    key |-> LocalVariantId(products[g],
                                           VariantsOf(products[g])[v])])
  /\ UNCHANGED <<isOpen, searchTerm, debouncedSearchTerm, products, page,
                 isLoading, hasMore, error, inflight, historyVars, appVars,
                 rowQuery>>

\* A click on a group header of the picker.
handleSelectAllProductVariants(g) ==
  /\ LoaderRendered
  /\ g \in DOMAIN products
  /\ selectedVariants' = SelectAllVariants(selectedVariants, products[g])
  /\ SelectionCall([op |-> "selectAll", again |-> FALSE, key |-> products[g]])
  /\ UNCHANGED <<isOpen, searchTerm, debouncedSearchTerm, products, page,
                 isLoading, hasMore, error, inflight, historyVars, appVars,
                 rowQuery>>

\* The Add button: handleAddSelected, App.handleProductSelection and
\* App.handleClosePicker, then the effect on isOpen.
handleAddSelected ==
  /\ isOpen
  /\ Len(selectedVariants) > 0
  /\ ClosePicker
  /\ LET rows == variantsByProduct(selectedVariants, clock) IN
       /\ selectedProducts' =
            IF editingProductIndex = NoIndex THEN selectedProducts
            ELSE SpliceReplace(selectedProducts, editingProductIndex, rows)
       /\ lastCall' = [op |-> "addSelected", again |-> FALSE, key |-> NULL,
                       rows |-> rows]
  /\ editingProductIndex' = NoIndex
  /\ prevSelection' = [one |-> selectedVariants, two |-> prevSelection.one]
  /\ UNCHANGED <<nextKey, clock, rowQuery>>

\* The remote groups the picker shows while a selection is made: three, two
\* and no variant.
SelectionCatalog == <<3, 2, 4>>

\* A placeholder row as App.handleAddProduct builds it.
PlaceholderRow(uuid) ==
  [localId |-> <<"placeholder", "-", uuid>>,
   variants |-> <<>>,
   discountType |-> NULL,
   discountValue |-> NoAmount,
   showVariants |-> FALSE,
   isPlaceholder |-> TRUE]

\* The picker was opened on the only row, a placeholder, and the load of the
\* mount has been answered with SelectionCatalog.
InitSel ==
  /\ isOpen = TRUE
  /\ searchTerm = ""
  /\ debouncedSearchTerm = ""
  /\ products = SelectionCatalog
  /\ hasMore = FALSE
  /\ selectedVariants = EmptySelection
  /\ page = 2
  /\ isLoading = FALSE
  /\ error = NULL
  /\ inflight = {}
  /\ nextSeq = 2
  /\ seqAtReset = 1
  /\ seqAtClose = 0
  /\ lastAnswered = [seq |-> 1, term |-> "", currentPage |-> 1,
                     reset |-> TRUE, failed |-> FALSE,
                     data |-> SelectionCatalog]
  /\ epochRef = SelectionCatalog
  /\ epochSequential = TRUE
  /\ lastEvent = "open"
  /\ selectedProducts = <<PlaceholderRow(1)>>
  /\ editingProductIndex = 0
  /\ nextKey = 2
  /\ clock = 1
  /\ rowQuery = NoQuery
  /\ prevSelection = NoHistory
  /\ lastCall = NoCall

NextSel ==
  \/ \E g \in DOMAIN products : \E v \in 1..3 : handleVariantSelectToggle(g, v)
  \/ \E g \in DOMAIN products : handleSelectAllProductVariants(g)
  \/ handleAddSelected

SpecSel == InitSel /\ [][NextSel]_vars

\* ------------------------------------------------------------ drag reorder
\* over = null: the drag ended outside every droppable.
NoDroppable == [type |-> "none"]

\* ProductItem renders the sortable sub-items of a row only for a shown,
\* non-placeholder row with more than one variant.
VariantListRendered(row) ==
  /\ ~row.isPlaceholder
  /\ Len(row.variants) > 1
  /\ row.showVariants

\* The sortables on screen: one per row, one per rendered sub-item.  id and
\* type are what useSortable hands to the event; row and place say where on
\* screen the element sits.
Sortables(list) ==
  {[type |-> "PRODUCT", id |-> list[i].localId, row |-> i, place |-> 0] :
     i \in DOMAIN list}
  \cup
  {[type |-> "VARIANT", id |-> list[pr[1]].variants[pr[2]].localId,
    row |-> pr[1], place |-> pr[2]] :
     pr \in {q \in (DOMAIN list) \X (1..3) :
               /\ VariantListRendered(list[q[1]])
               /\ q[2] \in DOMAIN list[q[1]].variants}}

\* findIndex whose -1 is read as the last place, as splice reads it.
findIndex_LastWhenAbsent(array, id) ==
  IF \E i \in DOMAIN array : array[i].localId = id
    THEN CHOOSE i \in DOMAIN array :
           /\ array[i].localId = id
           /\ \A j \in DOMAIN array : array[j].localId = id => i <= j
    ELSE Len(array)

\* Array.prototype.findIndex on localId, counted from 1; 0 stands for -1.
findIndex(array, id) ==
  IF \E i \in DOMAIN array : array[i].localId = id
    THEN CHOOSE i \in DOMAIN array :
           /\ array[i].localId = id
           /\ \A j \in DOMAIN array : array[j].localId = id => i <= j
    ELSE 0

\* Array.prototype.splice on a copy: start counted from 0 and clamped to the
\* array, deleteCount clamped to what is left behind start.
splice(array, start, deleteCount, items) ==
  LET len == Len(array)
      first == IF start < 0
                 THEN (IF len + start < 0 THEN 0 ELSE len + start)
                 ELSE (IF start > len THEN len ELSE start)
      gone == IF deleteCount < 0 THEN 0
              ELSE IF deleteCount > len - first THEN len - first
              ELSE deleteCount
  IN SubSeq(array, 1, first) \o items \o SubSeq(array, first + gone + 1, len)

\* A move that looks for the target after the item went out: behind the
\* place the item left, newIndex is one less.
SpliceMove_IndexAfterRemoval(array, oldIndex, newIndex) ==
  LET movedItem == array[oldIndex + 1]
      rest == splice(array, oldIndex, 1, <<>>)
  IN splice(rest, IF newIndex > oldIndex THEN newIndex - 1 ELSE newIndex, 0,
            <<movedItem>>)

\* The move of the earlier revision of handleDragEnd, on the draft: the item
\* at oldIndex is spliced out and spliced in at newIndex, both counted from 0
\* and both found before the item went out.
SpliceMove(array, oldIndex, newIndex) ==
  LET movedItem == array[oldIndex + 1]
  IN splice(splice(array, oldIndex, 1, <<>>), newIndex, 0, <<movedItem>>)

\* A move that exchanges the two elements.
arrayMove_Swap(array, from, to) ==
  [k \in DOMAIN array |->
     IF k = from THEN array[to] ELSE IF k = to THEN array[from] ELSE array[k]]

\* A move that writes the moved element over the one at the target place.
arrayMove_Overwrite(array, from, to) ==
  [array EXCEPT ![to] = array[from]]

\* arrayMove: splice(from, 1), then splice(to, 0, movedItem); from and to are
\* counted from 1 here.
arrayMove(array, from, to) ==
  LET movedItem == array[from]
      rest == SubSeq(array, 1, from - 1) \o SubSeq(array, from + 1, Len(array))
  IN SubSeq(rest, 1, to - 1) \o <<movedItem>> \o SubSeq(rest, to, Len(rest))

\* The first row that has a variant with the dragged id, 0 when there is none.
productIndexOf(list, activeId) ==
  IF \E i \in DOMAIN list : findIndex(list[i].variants, activeId) # 0
    THEN CHOOSE i \in DOMAIN list :
           /\ findIndex(list[i].variants, activeId) # 0
           /\ \A j \in DOMAIN list :
                findIndex(list[j].variants, activeId) # 0 => i <= j
    ELSE 0

\* The branches on the types of a drag end that takes a group dropped on a
\* sub-item for a drop on the row of that sub-item.
ReorderByType_GroupOntoSubItem(list, active, over) ==
  IF active.type = "PRODUCT" THEN
    LET oldIndex == findIndex(list, active.id)
        newIndex == IF over.type = "PRODUCT" THEN findIndex(list, over.id)
                    ELSE productIndexOf(list, over.id)
    IN IF oldIndex # 0 /\ newIndex # 0
         THEN arrayMove(list, oldIndex, newIndex)
         ELSE list
  ELSE IF active.type = "VARIANT" /\ over.type = "VARIANT" THEN
    LET productIndex == productIndexOf(list, active.id)
    IN IF productIndex = 0 THEN list
       ELSE LET product == list[productIndex]
                oldVariantIndex == findIndex(product.variants, active.id)
                newVariantIndex == findIndex(product.variants, over.id)
            IN IF newVariantIndex # 0 /\ oldVariantIndex # 0
                 THEN [list EXCEPT ![productIndex].variants =
                         arrayMove(product.variants, oldVariantIndex,
                                   newVariantIndex)]
                 ELSE list
  ELSE list

\* The branches of handleDragEnd on the types of active and over.
ReorderByType(list, active, over) ==
  IF active.type = "PRODUCT" /\ over.type = "PRODUCT" THEN
    LET oldIndex == findIndex(list, active.id)
        newIndex == findIndex(list, over.id)
    IN IF oldIndex # 0 /\ newIndex # 0
         THEN arrayMove(list, oldIndex, newIndex)
         ELSE list
  ELSE IF active.type = "VARIANT" /\ over.type = "VARIANT" THEN
    LET productIndex == productIndexOf(list, active.id)
    IN IF productIndex = 0 THEN list
       ELSE LET product == list[productIndex]
                oldVariantIndex == findIndex(product.variants, active.id)
                newVariantIndex == findIndex(product.variants, over.id)
            IN IF newVariantIndex # 0 /\ oldVariantIndex # 0
                 THEN [list EXCEPT ![productIndex].variants =
                         arrayMove(product.variants, oldVariantIndex,
                                   newVariantIndex)]
                 ELSE list
  ELSE list

\* handleDragEnd that takes a drop outside every droppable for a drop at the
\* end of the list.
DragEndList_DropOutsideMovesLast(list, active, over) ==
  IF over.type = "none" THEN
    IF active.type = "PRODUCT" /\ findIndex(list, active.id) # 0
      THEN arrayMove(list, findIndex(list, active.id), Len(list))
      ELSE list
  ELSE IF active.id = over.id THEN list
  ELSE ReorderByType(list, active, over)

\* The list handleDragEnd leaves for an event with these active and over.
DragEndList(list, active, over) ==
  IF over.type = "none" THEN list
  ELSE IF active.id = over.id THEN list
  ELSE ReorderByType(list, active, over)

\* The end of a drag of the sortable active, dropped on over.
handleDragEnd(active, over) ==
  /\ active \in Sortables(selectedProducts)
  /\ over \in Sortables(selectedProducts) \cup {NoDroppable}
  /\ selectedProducts' = DragEndList(selectedProducts, active, over)
  /\ UNCHANGED <<pickerVars, historyVars, editingProductIndex, nextKey, clock,
                 rowQuery, callVars>>

\* The selection after a click on each of these variants of a remote group.
RECURSIVE ToggleEach(_, _, _)
ToggleEach(sel, productId, variantIds) ==
  IF variantIds = <<>> THEN sel
  ELSE ToggleEach(ToggleVariant(sel, productId, Head(variantIds)),
                  productId, Tail(variantIds))

\* The row the Add button of the picker leaves at time now for a remote
\* group of which these variants were selected, with its variants then shown.
ShownRow(productId, variantIds, now) ==
  [SelectedRow(ToggleEach(EmptySelection, productId, variantIds),
               productId, now)
     EXCEPT !.showVariants = TRUE]

\* The rows of the lists that are dragged: the remote group 3 with all its
\* variants, the remote group 2, the remote group 3 once more with its last
\* two variants, then placeholders.
InputRow(i) ==
  CASE i = 1 -> ShownRow(3, <<1, 2, 3>>, 1)
    [] i = 2 -> ShownRow(2, <<1, 2>>, 2)
    [] i = 3 -> ShownRow(3, <<2, 3>>, 3)
    [] OTHER -> PlaceholderRow(i)

InitList ==
  /\ isOpen = FALSE
  /\ searchTerm = ""
  /\ debouncedSearchTerm = ""
  /\ products = <<>>
  /\ selectedVariants = EmptySelection
  /\ page = 1
  /\ isLoading = FALSE
  /\ hasMore = TRUE
  /\ error = NULL
  /\ inflight = {[seq |-> 1, term |-> "", currentPage |-> 1, reset |-> TRUE]}
  /\ nextSeq = 2
  /\ seqAtReset = 1
  /\ seqAtClose = 0
  /\ lastAnswered = NoAnswer
  /\ epochRef = <<>>
  /\ epochSequential = TRUE
  /\ lastEvent = "mount"
  /\ selectedProducts \in {[i \in 1..n |-> InputRow(i)] : n \in 0..MaxRows}
  /\ editingProductIndex = NoIndex
  /\ nextKey = MaxRows + 1
  /\ clock = 1
  /\ rowQuery = NoQuery
  /\ prevSelection = NoHistory
  /\ lastCall = NoCall

NextList ==
  \E active \in Sortables(selectedProducts) :
    \E over \in Sortables(selectedProducts) \cup {NoDroppable} :
      handleDragEnd(active, over)

SpecList == InitList /\ [][NextList]_vars

\* ------------------------------------------------- drag ends, by their case
\* The key of a sortable belongs to an entity of the list of its own type.
Resolves(list, sortable) ==
  IF sortable.type = "PRODUCT"
    THEN \E i \in DOMAIN list : list[i].localId = sortable.id
    ELSE \E i \in DOMAIN list :
           \E j \in DOMAIN list[i].variants :
             list[i].variants[j].localId = sortable.id

\* The sortables of rows that are no longer in the list: the drag began on
\* them, or hovered over them, before their row was taken out.
StaleSortables(list) ==
  LET all == [i \in 1..MaxRows |-> InputRow(i)]
      gone == {i \in DOMAIN all :
                 \A k \in DOMAIN list : list[k].localId # all[i].localId}
  IN {[s EXCEPT !.row = 0, !.place = 0] :
        s \in {t \in Sortables(all) : t.row \in gone}}

\* What a drag end is, told from the event alone.
DragCase(list, active, over) ==
  {c \in {"noTarget", "sameKey", "mixed", "stale", "foreign", "group",
          "inside"} :
     \/ c = "noTarget" /\ over.type = "none"
     \/ /\ over.type # "none"
        /\ \/ c = "sameKey" /\ over.id = active.id
           \/ c = "mixed" /\ over.type # active.type
           \/ c = "stale" /\ (~Resolves(list, active) \/ ~Resolves(list, over))
           \/ /\ c = "foreign"
              /\ active.type = "VARIANT" /\ over.type = "VARIANT"
              /\ active.row # 0
              /\ \A j \in DOMAIN list[active.row].variants :
                   list[active.row].variants[j].localId # over.id
           \/ /\ c = "group"
              /\ active.type = "PRODUCT" /\ over.type = "PRODUCT"
              /\ active.row # 0 /\ over.row # 0 /\ active.row # over.row
           \/ /\ c = "inside"
              /\ active.type = "VARIANT" /\ over.type = "VARIANT"
              /\ active.row # 0 /\ active.row = over.row
              /\ active.place # over.place}

\* handleDragEnd with the case of its event written to the history.
DragEndEvent(active, over) ==
  /\ selectedProducts' = DragEndList(selectedProducts, active, over)
  /\ lastCall' = [op |-> "dragEnd", again |-> FALSE,
                  key |-> DragCase(selectedProducts, active, over)]
  /\ UNCHANGED <<pickerVars, historyVars, editingProductIndex, nextKey, clock,
                 rowQuery, prevSelection>>

NextDrag ==
  \E active \in Sortables(selectedProducts)
                  \cup StaleSortables(selectedProducts) :
    \E over \in Sortables(selectedProducts)
                  \cup StaleSortables(selectedProducts) \cup {NoDroppable} :
      DragEndEvent(active, over)

SpecDrag == InitList /\ [][NextDrag]_vars

\* ------------------------------------------------------- the list of rows
\* The Add Product button.
handleAddProduct ==
  /\ Len(selectedProducts) < MaxAppRows
  /\ nextKey <= MaxKeys
  /\ selectedProducts' = Append(selectedProducts, PlaceholderRow(nextKey))
  /\ nextKey' = nextKey + 1
  /\ lastCall' = [op |-> "addProduct", again |-> FALSE,
                  key |-> PlaceholderRow(nextKey).localId]
  /\ UNCHANGED <<pickerVars, historyVars, editingProductIndex, clock, rowQuery,
                 prevSelection>>

\* The remove button of a row, were it rendered for an only row as well.
handleRemoveProduct_OnlyRowToo(localIdToRemove) ==
  /\ LET index == findIndex(selectedProducts, localIdToRemove)
     IN selectedProducts' =
          IF index # 0
            THEN SubSeq(selectedProducts, 1, index - 1) \o
                 SubSeq(selectedProducts, index + 1, Len(selectedProducts))
            ELSE selectedProducts
  /\ UNCHANGED <<pickerVars, historyVars, editingProductIndex, nextKey, clock,
                 rowQuery, callVars>>

\* The remove button of a row, rendered when there is more than one row.
handleRemoveProduct(localIdToRemove) ==
  /\ Len(selectedProducts) > 1
  /\ LET index == findIndex(selectedProducts, localIdToRemove)
     IN selectedProducts' =
          IF index # 0
            THEN SubSeq(selectedProducts, 1, index - 1) \o
                 SubSeq(selectedProducts, index + 1, Len(selectedProducts))
            ELSE selectedProducts
  /\ UNCHANGED <<pickerVars, historyVars, editingProductIndex, nextKey, clock,
                 rowQuery, callVars>>

\* The edit button of the row at index (counted from 0): the picker opens.
handleEditProduct(index) ==
  /\ index \in 0..(Len(selectedProducts) - 1)
  /\ OpenPicker
  /\ editingProductIndex' = index
  /\ UNCHANGED <<selectedProducts, nextKey, clock, rowQuery, callVars>>

\* The Show/Hide Variants button of a row, rendered for a row that is no
\* placeholder and has more than one variant.
handleToggleVariants(localId) ==
  /\ \E i \in DOMAIN selectedProducts :
       /\ selectedProducts[i].localId = localId
       /\ ~selectedProducts[i].isPlaceholder
       /\ Len(selectedProducts[i].variants) > 1
  /\ LET index == findIndex(selectedProducts, localId)
     IN selectedProducts' =
          [selectedProducts EXCEPT ![index].showVariants =
             ~selectedProducts[index].showVariants]
  /\ UNCHANGED <<pickerVars, historyVars, editingProductIndex, nextKey, clock,
                 rowQuery, callVars>>

\* The Cancel button of the picker.
handleClosePicker ==
  /\ ClosePicker
  /\ editingProductIndex' = NoIndex
  /\ lastCall' = [op |-> "closePicker", again |-> FALSE, key |-> NULL]
  /\ UNCHANGED <<selectedProducts, nextKey, clock, rowQuery, prevSelection>>

\* Time passes: the next Date.now() reads a later value.
Tick ==
  /\ clock < MaxNow
  /\ clock' = clock + 1
  /\ UNCHANGED <<pickerVars, historyVars, selectedProducts,
                 editingProductIndex, nextKey, rowQuery, callVars>>

\* The page the endpoint answers every load with: the remote group 2.
AppOutcome == [failed |-> FALSE, data |-> <<2>>]

\* The rows are behind the modal picker while it is open.
NextApp ==
  \/ ~isOpen /\ handleAddProduct
  \/ ~isOpen /\ \E i \in DOMAIN selectedProducts :
                  handleRemoveProduct(selectedProducts[i].localId)
  \/ \E i \in DOMAIN selectedProducts : handleEditProduct(i - 1)
  \/ ~isOpen /\ \E i \in DOMAIN selectedProducts :
                  handleToggleVariants(selectedProducts[i].localId)
  \/ ~isOpen /\ \E active \in Sortables(selectedProducts) :
                  \E over \in Sortables(selectedProducts) \cup {NoDroppable} :
                    handleDragEnd(active, over)
  \/ handleClosePicker
  \/ loadMoreItems /\ UNCHANGED outsidePicker
  \/ \E f \in inflight : ResolveFetch(f, AppOutcome) /\ UNCHANGED outsidePicker
  \/ \E g \in DOMAIN products : \E v \in 1..3 : handleVariantSelectToggle(g, v)
  \/ handleAddSelected
  \/ Tick

SpecApp == Init /\ [][NextApp]_vars

\* ------------------------------------------------------------ the discounts
\* What the user may leave in the number input of a DiscountInput, as the
\* characters of e.target.value: nothing, digits, a sign, letters.
DiscountTexts ==
  {<<>>, <<"5">>, <<"0">>, <<"-", "5">>, <<"a">>, <<"5", "a">>, <<"-">>}

DiscountTypes == {"percentage", "flat"}

IsDigit(c) == c \in {"0", "5"}

\* The longest run of digits text begins with.
RECURSIVE DigitsPrefix(_)
DigitsPrefix(text) ==
  IF text = <<>> \/ ~IsDigit(Head(text)) THEN <<>>
  ELSE <<Head(text)>> \o DigitsPrefix(Tail(text))

\* The number a run of digits writes.
RECURSIVE DecimalValue(_)
DecimalValue(digits) ==
  IF digits = <<>> THEN 0
  ELSE 10 * DecimalValue(SubSeq(digits, 1, Len(digits) - 1))
       + (IF digits[Len(digits)] = "5" THEN 5 ELSE 0)

\* parseFloat of a text without point or exponent: an optional sign, then
\* the digits up to the first character that is none; NaN without a digit.
parseFloat(text) ==
  LET negative == text # <<>> /\ Head(text) = "-"
      digits == DigitsPrefix(IF negative THEN Tail(text) ELSE text)
  IN IF digits = <<>> THEN [nan |-> TRUE, num |-> 0]
     ELSE [nan |-> FALSE,
           num |-> IF negative THEN 0 - DecimalValue(digits)
                   ELSE DecimalValue(digits)]

\* DiscountInput.handleValueChange that hands on every number.
handleValueChange_AnyNumber(text) ==
  IF text = <<>> THEN {NoAmount}
  ELSE IF ~parseFloat(text).nan THEN {<<parseFloat(text).num>>}
  ELSE {}

\* DiscountInput.handleValueChange: the amounts onValueChange is called with
\* for this e.target.value, none when the text is dropped.
handleValueChange(text) ==
  IF text = <<>> THEN {NoAmount}
  ELSE IF ~parseFloat(text).nan /\ parseFloat(text).num >= 0
    THEN {<<parseFloat(text).num>>}
  ELSE {}

\* The row with this descriptor, its variants left as they are: the older
\* handleUpdateProductDiscount.
SetRowDiscount_RowOnly(row, type, value) ==
  [row EXCEPT !.discountType = type, !.discountValue = value]

\* The row and every variant of it with this descriptor.
SetRowDiscount(row, type, value) ==
  [row EXCEPT !.discountType = type,
              !.discountValue = value,
              !.variants = [j \in DOMAIN row.variants |->
                              [row.variants[j] EXCEPT
                                 !.discountType = type,
                                 !.discountValue = value]]]

\* App.handleUpdateProductDiscount: draft.find, then the row and the cascade.
handleUpdateProductDiscount(list, localId, type, value) ==
  LET index == findIndex(list, localId)
  IN IF index = 0 THEN list
     ELSE [list EXCEPT ![index] = SetRowDiscount(list[index], type, value)]

\* App.handleUpdateVariantDiscount: the rows in order, the first variant of
\* a row with this key, then break.
handleUpdateVariantDiscount(list, variantLocalId, type, value) ==
  LET owners == {i \in DOMAIN list :
                   \E j \in DOMAIN list[i].variants :
                     list[i].variants[j].localId = variantLocalId}
  IN IF owners = {} THEN list
     ELSE LET i == CHOOSE x \in owners : \A y \in owners : x <= y
              j == findIndex(list[i].variants, variantLocalId)
          IN [list EXCEPT ![i].variants[j] =
                [@ EXCEPT !.discountType = type, !.discountValue = value]]

\* The DiscountInputs there would be if ProductItem rendered one for a
\* placeholder as well.
DiscountInputs_OnPlaceholders(list) ==
  {[type |-> "PRODUCT", id |-> list[i].localId, row |-> i, place |-> 0,
    discountType |-> list[i].discountType,
    discountValue |-> list[i].discountValue] : i \in DOMAIN list}
  \cup
  {[type |-> "VARIANT", id |-> s.id, row |-> s.row, place |-> s.place,
    discountType |-> list[s.row].variants[s.place].discountType,
    discountValue |-> list[s.row].variants[s.place].discountValue] :
     s \in {t \in Sortables(list) : t.type = "VARIANT"}}

\* The DiscountInputs on screen: one per row that is no placeholder, one per
\* rendered sub-item, each with the descriptor it was rendered with.
DiscountInputs(list) ==
  {[type |-> "PRODUCT", id |-> list[i].localId, row |-> i, place |-> 0,
    discountType |-> list[i].discountType,
    discountValue |-> list[i].discountValue] :
     i \in {k \in DOMAIN list : ~list[k].isPlaceholder}}
  \cup
  {[type |-> "VARIANT", id |-> s.id, row |-> s.row, place |-> s.place,
    discountType |-> list[s.row].variants[s.place].discountType,
    discountValue |-> list[s.row].variants[s.place].discountValue] :
     s \in {t \in Sortables(list) : t.type = "VARIANT"}}

\* The rows of the lists whose discounts are edited: the remote group 2
\* confirmed twice, then placeholders that were added earlier.
DiscountRow(i) ==
  CASE i = 1 -> ShownRow(2, <<1, 2>>, 1)
    [] i = 2 -> ShownRow(2, <<1, 2>>, 2)
    [] OTHER -> PlaceholderRow(0 - i)

\* A row that was taken out of the list before the lists here begin.
RemovedRow == ShownRow(3, <<1, 2>>, 3)

\* The DiscountInputs of rows that are not in the list: their handlers are
\* called with keys of rows the list does not hold.
StaleDiscountInputs(list) ==
  LET all == [i \in 1..(MaxDiscountRows + 1) |->
                IF i <= MaxDiscountRows THEN DiscountRow(i) ELSE RemovedRow]
      gone == {i \in DOMAIN all :
                 \A k \in DOMAIN list : list[k].localId # all[i].localId}
  IN {[s EXCEPT !.row = 0, !.place = 0] :
        s \in {t \in DiscountInputs(all) : t.row \in gone}}

\* The handler of App a DiscountInput of this kind of entity ends in.
UpdateDiscount(at, type, value) ==
  /\ selectedProducts' =
       IF at.type = "PRODUCT"
         THEN handleUpdateProductDiscount(selectedProducts, at.id, type, value)
         ELSE handleUpdateVariantDiscount(selectedProducts, at.id, type, value)
  /\ lastCall' = [op |-> "discount", again |-> FALSE, key |-> at.id,
                  at |-> <<at.type, at.row, at.place>>,
                  type |-> type, value |-> value]
  /\ UNCHANGED <<pickerVars, historyVars, editingProductIndex, nextKey, clock,
                 rowQuery, prevSelection>>

\* ProductItem.handleProductDiscountTypeChange and
\* VariantItem.handleDiscountTypeChange, from the select of a DiscountInput.
handleDiscountTypeChange(at, type) ==
  UpdateDiscount(at, type, at.discountValue)

\* ProductItem.handleProductDiscountValueChange and
\* VariantItem.handleDiscountValueChange, from the number input of a
\* DiscountInput; a text that handleValueChange drops changes nothing.
handleDiscountValueChange(at, text) ==
  IF handleValueChange(text) = {}
    THEN /\ lastCall' = [op |-> "dropped", again |-> FALSE, key |-> at.id,
                         text |-> text]
         /\ UNCHANGED <<pickerVars, historyVars, appVars, rowQuery,
                        prevSelection>>
  ELSE \E value \in handleValueChange(text) :
         UpdateDiscount(at,
                        IF at.discountType = NULL THEN "percentage"
                        ELSE at.discountType,
                        value)

InitDiscount ==
  /\ isOpen = FALSE
  /\ searchTerm = ""
  /\ debouncedSearchTerm = ""
  /\ products = <<>>
  /\ selectedVariants = EmptySelection
  /\ page = 1
  /\ isLoading = FALSE
  /\ hasMore = TRUE
  /\ error = NULL
  /\ inflight = {[seq |-> 1, term |-> "", currentPage |-> 1, reset |-> TRUE]}
  /\ nextSeq = 2
  /\ seqAtReset = 1
  /\ seqAtClose = 0
  /\ lastAnswered = NoAnswer
  /\ epochRef = <<>>
  /\ epochSequential = TRUE
  /\ lastEvent = "mount"
  /\ selectedProducts \in
       {[i \in 1..n |-> DiscountRow(i)] : n \in 1..MaxDiscountRows}
  /\ editingProductIndex = NoIndex
  /\ nextKey = 1
  /\ clock = MaxDiscountRows + 2
  /\ rowQuery = NoQuery
  /\ prevSelection = NoHistory
  /\ lastCall = NoCall

NextDiscount ==
  \/ \E at \in DiscountInputs(selectedProducts)
                 \cup StaleDiscountInputs(selectedProducts) :
       \/ \E type \in DiscountTypes : handleDiscountTypeChange(at, type)
       \/ \E text \in DiscountTexts : handleDiscountValueChange(at, text)
  \/ handleAddProduct

SpecDiscount == InitDiscount /\ [][NextDiscount]_vars

\* ------------------------------------------- the picker with its selection
\* The queries typed while a selection is made.
PickTerms == {"", "a"}

\* What the endpoint answers a load of this query with while a selection is
\* made: one remote group of two variants.
PickOutcomes(t) == {[failed |-> FALSE, data |-> <<TermBase(t) + 2>>]}

\* The picker with its search box, its loads and the clicks on its rows.
NextPick ==
  \/ OpenPicker /\ UNCHANGED outsidePicker
  \/ ClosePicker /\ UNCHANGED outsidePicker
  \/ \E t \in PickTerms : handleSearchChange(t) /\ UNCHANGED outsidePicker
  \/ DebouncedTermEffect /\ UNCHANGED outsidePicker
  \/ loadMoreItems /\ UNCHANGED outsidePicker
  \/ \E f \in inflight : \E o \in PickOutcomes(f.term) :
       ResolveFetch(f, o) /\ UNCHANGED outsidePicker
  \/ \E g \in DOMAIN products : \E v \in 1..3 : handleVariantSelectToggle(g, v)
  \/ \E g \in DOMAIN products : handleSelectAllProductVariants(g)

SpecPick == Init /\ [][NextPick]_vars

TypeOK ==
  /\ isOpen \in BOOLEAN
  /\ searchTerm \in Terms
  /\ debouncedSearchTerm \in Terms
  /\ page \in 1..(MaxFetches + 2)
  /\ isLoading \in BOOLEAN
  /\ hasMore \in BOOLEAN
  /\ error \in {NULL, LOAD_ERROR}
  /\ nextSeq \in 1..(MaxFetches + 1)
  /\ seqAtClose <= seqAtReset /\ seqAtReset <= nextSeq

\* ------------------------------------------------------------------ claims
\* A step in which a fetch is answered.
IsAnswerStep == lastAnswered' # lastAnswered

\* C1: when the fetch of an earlier query is answered right after the fetch
\* of the current, later issued, query, products afterwards holds only groups
\* of the current query and products, page and hasMore are the ones the later
\* fetch left.
C1_StaleResponseDiscarded ==
  [][ ( /\ IsAnswerStep
        /\ lastEvent = "resolve"
        /\ lastAnswered.term = debouncedSearchTerm
        /\ lastAnswered'.seq < lastAnswered.seq
        /\ lastAnswered'.term # lastAnswered.term )
      => ( /\ \A i \in DOMAIN products' :
                TermOfId(products'[i]) = lastAnswered.term
           /\ products' = products
           /\ page' = page
           /\ hasMore' = hasMore ) ]_vars

\* C2: every change of the debounced query resets products, page and hasMore
\* and issues a fetch for (new query, page 1) in the same step.
C2_QueryChangeResetsAndFetches ==
  [][ debouncedSearchTerm' # debouncedSearchTerm
      => ( /\ products' = <<>>
           /\ page' = 1
           /\ hasMore' = TRUE
           /\ \E f \in inflight' \ inflight :
                f.term = debouncedSearchTerm' /\ f.currentPage = 1 ) ]_vars

\* C3: while the picker is closed, the answer of a fetch that was in flight
\* when it was closed changes none of products, page, hasMore, isLoading and
\* error.
C3_ClosedPickerIgnoresAnswer ==
  [][ ( /\ IsAnswerStep
        /\ ~isOpen
        /\ lastAnswered'.seq < seqAtClose )
      => UNCHANGED paginationVars ]_vars

\* C4: products never holds two entries with the same remote group id.
C4_NoDuplicateGroupIds ==
  \A i, j \in DOMAIN products : i # j => products[i] # products[j]

\* C5: when the loads since the last reset ran one after the other, products
\* is the concatenation of the pages they returned, in request order, with
\* every group whose id was already present removed.
C5_ConcatenationMinusDuplicates ==
  epochSequential => products = epochRef

\* C6: loadMoreItems called while isLoading is true or hasMore is false issues
\* no fetch and changes none of the query, page, products, isLoading, hasMore
\* and error.
C6_LoadMoreNoOp ==
  [][ ( /\ lastEvent' \in {"loadMore", "loadMoreSkipped"}
        /\ (isLoading \/ ~hasMore) )
      => UNCHANGED <<debouncedSearchTerm, page, products, isLoading, hasMore,
                     error, inflight, nextSeq>> ]_vars

\* loadMoreItems has just been called while a load of the current query was
\* in progress.
C6_Witness ==
  /\ lastEvent = "loadMoreSkipped"
  /\ isLoading /\ hasMore /\ Len(products) > 0
  /\ \E f \in inflight : f.term = debouncedSearchTerm /\ ~f.reset

\* C7: after the answer to a load of page n that did not fail, page = n + 1
\* and hasMore is true exactly when the answer held PAGE_LIMIT groups; a page
\* of 4 new groups appended to 10 loaded ones gives 14 groups, page 3 and
\* hasMore false.
C7_CursorAndHasMore ==
  [][ (IsAnswerStep /\ ~lastAnswered'.failed)
      => ( /\ page' = lastAnswered'.currentPage + 1
           /\ hasMore' = (Len(lastAnswered'.data) = 10)
           /\ ( ( /\ ~lastAnswered'.reset
                  /\ lastAnswered'.currentPage = 2
                  /\ Len(products) = 10
                  /\ Len(lastAnswered'.data) = 4
                  /\ \A i \in DOMAIN products :
                       \A j \in DOMAIN lastAnswered'.data :
                         products[i] # lastAnswered'.data[j] )
                => (Len(products') = 14 /\ page' = 3 /\ ~hasMore') ) ) ]_vars

\* Page 1 brought 10 groups, page 2 brought 4 more.
C7_Witness ==
  /\ lastEvent = "resolve"
  /\ ~lastAnswered.failed /\ ~lastAnswered.reset
  /\ lastAnswered.currentPage = 2 /\ Len(lastAnswered.data) = 4
  /\ Len(products) = 14 /\ page = 3 /\ ~hasMore

\* C8: once hasMore is false it stays false in every step that does not
\* change the query.
C8_HasMoreFalseIsTerminal ==
  [][ (~hasMore /\ debouncedSearchTerm' = debouncedSearchTerm)
      => ~hasMore' ]_vars

\* C9: when the remote fetch fails, error becomes non-null and products,
\* hasMore and page keep their values.
C9_FailureSetsErrorOnly ==
  [][ (IsAnswerStep /\ lastAnswered'.failed)
      => ( /\ error' # NULL
           /\ products' = products
           /\ hasMore' = hasMore
           /\ page' = page ) ]_vars

\* C10: at most one fetch issued by the picker is outstanding.
C10_AtMostOneFetchInFlight ==
  Cardinality(inflight) <= 1

\* Number of variants of the g-th loaded group.
VariantCount(g) == Len(VariantsOf(products[g]))

\* First flat position of the g-th loaded group: one position for every
\* header and every variant of the groups before it.
StartOf(g) ==
  Cardinality({pr \in (1..(g - 1)) \X (0..3) : pr[2] <= VariantCount(pr[1])})

\* totalRows of the specification.
TotalRowsRef == StartOf(Len(products) + 1) + (IF hasMore THEN 1 ELSE 0)

\* Every row the prefix sums allow at position p.
RowsRefAt(p) ==
  {[type |-> "product", product |-> g] :
     g \in {h \in DOMAIN products : p = StartOf(h)}}
  \cup
  {[type |-> "variant", product |-> g, variant |-> p - StartOf(g) - 1] :
     g \in {h \in DOMAIN products :
              StartOf(h) < p /\ p <= StartOf(h) + VariantCount(h)}}
  \cup
  (IF hasMore /\ p = TotalRowsRef - 1 THEN {[type |-> "loader"]} ELSE {})

InRange(q) == q # NoQuery /\ q.index >= 0 /\ q.index < TotalRowsRef

\* C11: for every position p in [0, totalRows) Row yields exactly the one row
\* the prefix sums give: the header of g at start(g), variant p - start(g) - 1
\* of g for start(g) < p <= start(g) + |variants(g)|, and the loader at
\* totalRows - 1 when hasMore.
C11_RowMatchesPrefixSums ==
  InRange(rowQuery) => RowsRefAt(rowQuery.index) = {rowQuery.item}

\* A variant of a later group was resolved while the loader row exists.
C11_Witness ==
  /\ InRange(rowQuery) /\ hasMore
  /\ rowQuery.item.type = "variant"
  /\ rowQuery.item.product = 3 /\ rowQuery.item.variant = 1

\* C12: itemCount is the sum over the loaded groups of (1 + number of
\* variants), plus 1 exactly when hasMore.
C12_ItemCountIsRowTotal ==
  rowQuery # NoQuery => rowQuery.count = TotalRowsRef

\* Nothing loaded, more to come: one row.
C12_Witness ==
  rowQuery # NoQuery /\ products = <<>> /\ hasMore /\ rowQuery.count = 1

HeightOfKind(type) ==
  CASE type = "product" -> 56
    [] type = "variant" -> 60
    [] type = "loader" -> 50
    [] OTHER -> 0

RECURSIVE SumOfSizes(_)
SumOfSizes(p) ==
  IF p < 0 THEN 0
  ELSE getItemSize(products, hasMore, itemCount(products, hasMore), p)
       + SumOfSizes(p - 1)

\* C13: inside [0, totalRows) getItemSize is the height of the kind Row
\* resolves (56 header, 60 variant, 50 loader), and the heights of all
\* positions add up to 56 * groups + 60 * variants + 50 * (1 if hasMore).
C13_HeightMatchesKind ==
  /\ InRange(rowQuery) => rowQuery.size = HeightOfKind(rowQuery.item.type)
  /\ rowQuery # NoQuery =>
       SumOfSizes(TotalRowsRef - 1) =
         56 * Len(products)
         + 60 * (StartOf(Len(products) + 1) - Len(products))
         + 50 * (IF hasMore THEN 1 ELSE 0)

\* The loader row of a window with headers and variants was measured.
C13_Witness ==
  /\ InRange(rowQuery) /\ rowQuery.item.type = "loader" /\ rowQuery.size = 50
  /\ Len(products) >= 2 /\ StartOf(Len(products) + 1) > Len(products)

\* C14: at a position >= totalRows Row and getItemSize answer with the fixed
\* values "Error: Item not found" and VARIANT_ROW_HEIGHT, whatever is loaded.
C14_OutOfRangeIsDefined ==
  (rowQuery # NoQuery /\ rowQuery.index >= TotalRowsRef)
    => (rowQuery.item = [type |-> "error"] /\ rowQuery.size = 60)

\* A position past the end of a window whose last group has no variant.
C14_Witness ==
  /\ rowQuery # NoQuery /\ rowQuery.index > TotalRowsRef
  /\ products # <<>> /\ VariantCount(Len(products)) = 0

\* ------------------------------------------------- claims on the selection
\* The keys of the sub-items of the remote group productId.
GroupKeys(productId) == AllVariantIds(productId)

\* Every entry outside the key set G is the same in both selections.
SameOutside(before, after, G) ==
  /\ Keys(before) \ G = Keys(after) \ G
  /\ \A k \in Keys(before) \ G : EntryOf(after, k) = EntryOf(before, k)

\* C15: toggle(k) puts k into the selection when it was absent and takes it
\* out when it was present, leaves every other entry as it was, and a second
\* toggle(k) right after the first restores the set of selected keys.
C15_ToggleFlipsOneKey ==
  lastCall.op = "toggle" =>
    LET k == lastCall.key
        before == prevSelection.one
    IN /\ (k \in Keys(before)) = (k \notin Keys(selectedVariants))
       /\ SameOutside(before, selectedVariants, {k})
       /\ lastCall.again =>
            Keys(selectedVariants) = Keys(prevSelection.two)

\* A key was toggled out again right after it was toggled in, next to two
\* other selected entries.
C15_Witness ==
  /\ lastCall.op = "toggle"
  /\ lastCall.again
  /\ lastCall.key \notin Keys(selectedVariants)
  /\ lastCall.key \in Keys(prevSelection.one)
  /\ Len(selectedVariants) = 2

\* C16: toggleAllInGroup(G) leaves none of G's sub-items selected when all of
\* them were selected, and otherwise leaves all of them selected with the
\* discount fields of those already selected kept; entries of other groups
\* are never changed.
C16_ToggleAllInGroup ==
  lastCall.op = "selectAll" =>
    LET G == GroupKeys(lastCall.key)
        before == prevSelection.one
    IN /\ IF G \subseteq Keys(before)
            THEN Keys(selectedVariants) \cap G = {}
            ELSE /\ G \subseteq Keys(selectedVariants)
                 /\ \A k \in G \cap Keys(before) :
                      /\ EntryOf(selectedVariants, k).discountType =
                           EntryOf(before, k).discountType
                      /\ EntryOf(selectedVariants, k).discountValue =
                           EntryOf(before, k).discountValue
       /\ SameOutside(before, selectedVariants, G)

\* A fully selected group was deselected while an entry of another group
\* stayed selected.
C16_Witness ==
  /\ lastCall.op = "selectAll"
  /\ GroupKeys(lastCall.key) # {}
  /\ GroupKeys(lastCall.key) \subseteq Keys(prevSelection.one)
  /\ Keys(selectedVariants) \cap GroupKeys(lastCall.key) = {}
  /\ selectedVariants # EmptySelection

\* The selection of G's sub-items in sel: none, some or all of them.
SomeButNotAll(sel, G) ==
  /\ Keys(sel) \cap G # {}
  /\ ~(G \subseteq Keys(sel))

\* C17 as stated: two toggleAllInGroup(G) in a row restore the set of
\* selected keys, whatever was selected before the first.
C17_DoubleToggleAllRestores ==
  (lastCall.op = "selectAll" /\ lastCall.again) =>
    Keys(selectedVariants) = Keys(prevSelection.two)

\* C17: two toggleAllInGroup(G) in a row restore the set of selected keys
\* when none or all of G's sub-items were selected before the first; when
\* only some of them were, the two leave none of G's sub-items selected and
\* the keys of other groups as they were.
C17_DoubleToggleAllAmended ==
  (lastCall.op = "selectAll" /\ lastCall.again) =>
    LET G == GroupKeys(lastCall.key)
        start == prevSelection.two
    IN IF SomeButNotAll(start, G)
         THEN Keys(selectedVariants) = Keys(start) \ G
         ELSE Keys(selectedVariants) = Keys(start)

\* toggleAllInGroup(G) ran twice in a row from a selection holding some but
\* not all of G's sub-items.
C17_Witness ==
  /\ lastCall.op = "selectAll"
  /\ lastCall.again
  /\ SomeButNotAll(prevSelection.two, GroupKeys(lastCall.key))

\* The place of the entry with key k in the selection.
PlaceOf(sel, k) == CHOOSE i \in DOMAIN sel : sel[i].localId = k

\* C18: materialize yields one Group for each distinct parent id among the
\* entries, every entry is a sub-item of exactly one of them, the one of its
\* parent, and the sub-items of a Group stand in the insertion order of the
\* entries.
C18_MaterializeGroupsByParent ==
  lastCall.op = "addSelected" =>
    LET entries == prevSelection.one
        rows == lastCall.rows
        parents == {entries[i].product_id : i \in DOMAIN entries}
        slots == {sl \in (DOMAIN rows) \X (DOMAIN entries) :
                    sl[2] \in DOMAIN rows[sl[1]].variants}
    IN /\ Len(rows) = Cardinality(parents)
       /\ {rows[g].apiId : g \in DOMAIN rows} = parents
       /\ \A i \in DOMAIN entries :
            \E sl \in slots :
              /\ rows[sl[1]].variants[sl[2]] = entries[i]
              /\ rows[sl[1]].apiId = entries[i].product_id
              /\ \A other \in slots :
                   rows[other[1]].variants[other[2]].localId =
                     entries[i].localId => other = sl
       /\ \A g \in DOMAIN rows :
            /\ Len(rows[g].variants) <= Len(entries)
            /\ \A j \in DOMAIN rows[g].variants :
                 rows[g].variants[j].localId \in Keys(entries)
            /\ \A j1, j2 \in DOMAIN rows[g].variants :
                 j1 < j2 =>
                   PlaceOf(entries, rows[g].variants[j1].localId) <
                     PlaceOf(entries, rows[g].variants[j2].localId)

\* Two Groups were materialized, one of them with sub-items selected in
\* another order than the picker lists them.
C18_Witness ==
  /\ lastCall.op = "addSelected"
  /\ Len(lastCall.rows) = 2
  /\ \E g \in DOMAIN lastCall.rows :
       /\ Len(lastCall.rows[g].variants) >= 2
       /\ lastCall.rows[g].variants[1].id > lastCall.rows[g].variants[2].id
  /\ selectedProducts = lastCall.rows

\* ------------------------------------------------ claims on the drag reorder
\* array with the element at from taken out and put back at the place to.
PositionalMove(array, from, to) ==
  [k \in DOMAIN array |->
     IF k = to THEN array[from]
     ELSE IF from < to /\ from <= k /\ k < to THEN array[k + 1]
     ELSE IF to < from /\ to < k /\ k <= from THEN array[k - 1]
     ELSE array[k]]

\* The sortables of one type.
SortablesOfType(list, type) == {d \in Sortables(list) : d.type = type}

\* The step is the end of a drag of active dropped on over.
IsDragEnd(active, over) ==
  selectedProducts' = DragEndList(selectedProducts, active, over)

\* C19: a group drag-end with source and target both in the list takes the
\* source group out and puts it back at the index the target had, shifting
\* the groups in between by one: [A,B,C,D] with A dragged onto C gives
\* [B,C,A,D].
C19_GroupDragIsPositionalMove ==
  [][\A active, over \in SortablesOfType(selectedProducts, "PRODUCT") :
       (active.row # over.row /\ IsDragEnd(active, over)) =>
         selectedProducts' =
           PositionalMove(selectedProducts, active.row, over.row)]_vars

\* Of the four groups A, B, C, D the first was dragged onto the third.
C19_Witness ==
  selectedProducts = <<InputRow(2), InputRow(3), InputRow(1), InputRow(4)>>

\* C20: a sub-item drag-end with source and target in the same group G moves
\* the source to the target's former index inside G's sub-items, [x,y,z] with
\* z dragged onto x giving [z,x,y]; the order of the groups and the sub-items
\* of every other group stay as they were.
C20_SubItemDragMovesInsideGroup ==
  [][\A active, over \in SortablesOfType(selectedProducts, "VARIANT") :
       (/\ active.row = over.row
        /\ active.place # over.place
        /\ IsDragEnd(active, over)) =>
         selectedProducts' =
           [selectedProducts EXCEPT ![active.row].variants =
              PositionalMove(selectedProducts[active.row].variants,
                             active.place, over.place)]]_vars

\* The last step was a drag end of this case.
DragWas(case) == lastCall.op = "dragEnd" /\ case \in lastCall.key

\* The step is a drag end of this case.
DragIs(case) == lastCall'.op = "dragEnd" /\ case \in lastCall'.key

\* C21: a sub-item drag-end whose target key is not among the sub-items of
\* the group that owns the source leaves the list as it was.
C21_ForeignTargetRejected ==
  [][DragIs("foreign") => selectedProducts' = selectedProducts]_vars

\* C22: a drag-end with no drop target, or with the target key equal to the
\* source key, leaves the list as it was.
C22_NoTargetOrSameKeyIsNoOp ==
  [][(DragIs("noTarget") \/ DragIs("sameKey")) =>
       selectedProducts' = selectedProducts]_vars

\* A drag ended outside every droppable on a list that earlier drags had
\* reordered.
C22_Witness ==
  /\ DragWas("noTarget")
  /\ Len(selectedProducts) = MaxRows
  /\ selectedProducts # [i \in 1..MaxRows |-> InputRow(i)]

\* C23: a drag-end whose source and target are of different domains leaves
\* the list as it was.
C23_MixedDomainsRejected ==
  [][DragIs("mixed") => selectedProducts' = selectedProducts]_vars

\* A group was dropped on a sub-item, or a sub-item on a group, and every
\* key of the event resolved.
C23_Witness ==
  /\ DragWas("mixed")
  /\ ~DragWas("stale")
  /\ Len(selectedProducts) > 1

\* C24: a drag-end of which the source key or the target key resolves to no
\* entity of the list leaves the list as it was.
C24_StaleReferenceAbandoned ==
  [][DragIs("stale") => selectedProducts' = selectedProducts]_vars

\* A drag between two sortables of the same domain ended after the row of one
\* of them had gone.
C24_Witness ==
  /\ DragWas("stale")
  /\ ~DragWas("mixed")
  /\ Len(selectedProducts) > 1

\* b holds the elements of a, each as often as a does.
IsPermutation(a, b) ==
  /\ Len(a) = Len(b)
  /\ \A i \in DOMAIN a :
       Cardinality({k \in DOMAIN a : a[k] = a[i]}) =
         Cardinality({k \in DOMAIN b : b[k] = a[i]})

\* Only the order of the groups differs between the two lists.
OnlyGroupOrderChanged(before, after) ==
  /\ after # before
  /\ IsPermutation(before, after)

\* Only the order of the sub-items of one group differs between the two
\* lists.
OnlyOneSubItemOrderChanged(before, after) ==
  /\ Len(after) = Len(before)
  /\ \E g \in DOMAIN before :
       /\ after[g].variants # before[g].variants
       /\ IsPermutation(before[g].variants, after[g].variants)
       /\ after = [before EXCEPT ![g].variants = after[g].variants]

\* C25: a drag-end changes at most one ordered sequence of the list, the
\* order of the groups or the order of the sub-items of one group; the
\* changed sequence is a permutation of what it was, so that the moved entity
\* is neither missing nor there twice in the state the drag-end leaves.
C25_DragEndReplacesOneSequence ==
  [][lastCall'.op = "dragEnd" =>
       \/ selectedProducts' = selectedProducts
       \/ OnlyGroupOrderChanged(selectedProducts, selectedProducts')
       \/ OnlyOneSubItemOrderChanged(selectedProducts, selectedProducts')]_vars

\* A drag inside a group has reordered its sub-items, in a list whose groups
\* an earlier drag had reordered.
C25_Witness ==
  /\ DragWas("inside")
  /\ Len(selectedProducts) = MaxRows
  /\ selectedProducts[1].isPlaceholder
  /\ \E g \in DOMAIN selectedProducts :
       /\ Len(selectedProducts[g].variants) = 3
       /\ selectedProducts[g].variants[1].id = 3

\* ---------------------------------------------------- claims on the keys
\* C26: in every reachable state the keys of the groups of the list are
\* pairwise distinct, placeholder keys and keys made at confirm time
\* included, also when the same remote group is confirmed more than once.
C26_GroupKeysDistinct ==
  \A i, j \in DOMAIN selectedProducts :
    i # j => selectedProducts[i].localId # selectedProducts[j].localId

\* The places of the sub-items of the list: row and place in the row.
SubItemPlaces ==
  {pl \in (DOMAIN selectedProducts) \X (1..3) :
     pl[2] \in DOMAIN selectedProducts[pl[1]].variants}

\* C27: in every reachable state each sub-item key occurs in exactly one
\* group of the list and at most once inside it.
C27_SubItemKeysDistinct ==
  \A p, q \in SubItemPlaces :
    p # q => selectedProducts[p[1]].variants[p[2]].localId #
               selectedProducts[q[1]].variants[q[2]].localId

\* ------------------------------------------------- claims on the discounts
\* The places of the sub-items of this list that have this key.
PlacesOfKey(list, key) ==
  {pl \in (DOMAIN list) \X (1..3) :
     /\ pl[2] \in DOMAIN list[pl[1]].variants
     /\ list[pl[1]].variants[pl[2]].localId = key}

\* The list with this descriptor on the sub-item at this place, and nothing
\* else changed.
WithSubItemDiscount(list, pl, type, value) ==
  [list EXCEPT ![pl[1]].variants[pl[2]].discountType = type,
               ![pl[1]].variants[pl[2]].discountValue = value]

\* The step is a call of the discount handler of App for this kind of
\* entity.
DiscountCallIs(type) ==
  lastCall'.op = "discount" /\ lastCall'.at[1] = type

\* C28: setSubItemDiscount(k, kind, amount) changes the descriptor of
\* exactly one sub-item, the one the caller addressed by the key k, and
\* leaves every other sub-item, every group descriptor and all orderings as
\* they were; with a key that matches no sub-item nothing changes.
C28_SubItemDiscountChangesAddressedOne ==
  [][DiscountCallIs("VARIANT") =>
       LET addressed ==
             IF lastCall'.at[2] # 0
               THEN {<<lastCall'.at[2], lastCall'.at[3]>>}
               ELSE PlacesOfKey(selectedProducts, lastCall'.key)
       IN IF addressed = {} THEN selectedProducts' = selectedProducts
          ELSE \E pl \in addressed :
                 selectedProducts' =
                   WithSubItemDiscount(selectedProducts, pl,
                                       lastCall'.type, lastCall'.value)]_vars

\* C29: setGroupDiscount(g, kind, amount) sets the descriptor of the group g
\* to (kind, amount) and, in the cascading revision, the same descriptor on
\* every current sub-item of g; the descriptors of the other groups and of
\* their sub-items, and all orderings, are as they were; with a key that
\* matches no group nothing changes.
C29_GroupDiscountCascades ==
  [][DiscountCallIs("PRODUCT") =>
       LET owners == {i \in DOMAIN selectedProducts :
                        selectedProducts[i].localId = lastCall'.key}
       IN IF owners = {} THEN selectedProducts' = selectedProducts
          ELSE \E g \in owners :
                 /\ lastCall'.at[2] \in {0, g}
                 /\ Len(selectedProducts') = Len(selectedProducts)
                 /\ \A i \in DOMAIN selectedProducts :
                      i # g => selectedProducts'[i] = selectedProducts[i]
                 /\ selectedProducts'[g].localId = lastCall'.key
                 /\ selectedProducts'[g].discountType = lastCall'.type
                 /\ selectedProducts'[g].discountValue = lastCall'.value
                 /\ selectedProducts'[g].showVariants =
                      selectedProducts[g].showVariants
                 /\ Len(selectedProducts'[g].variants) =
                      Len(selectedProducts[g].variants)
                 /\ \A j \in DOMAIN selectedProducts[g].variants :
                      selectedProducts'[g].variants[j] =
                        [selectedProducts[g].variants[j] EXCEPT
                           !.discountType = lastCall'.type,
                           !.discountValue = lastCall'.value]]_vars

\* The flat discount 5 was set on the second row after a sub-item of the
\* first row and a sub-item of the second had got discounts of their own: it
\* is on both sub-items of the second row, and the first row is as it was.
C29_Witness ==
  /\ lastCall.op = "discount"
  /\ lastCall.at = <<"PRODUCT", 2, 0>>
  /\ lastCall.type = "flat"
  /\ lastCall.value = <<5>>
  /\ Len(selectedProducts) = 2
  /\ selectedProducts[1].variants[1].discountValue = <<0>>
  /\ selectedProducts[1].discountValue = NoAmount
  /\ \A j \in DOMAIN selectedProducts[2].variants :
       /\ selectedProducts[2].variants[j].discountType = "flat"
       /\ selectedProducts[2].variants[j].discountValue = <<5>>

\* null, or a number that is 0 or more.
AmountOK(amount) ==
  \/ amount = NoAmount
  \/ Len(amount) = 1 /\ amount[1] >= 0

\* C30: in every reachable state the discount amount of every group and of
\* every sub-item of the list is null or a number that is 0 or more, whatever
\* texts were typed into the discount inputs, negative and non-numeric ones
\* included, whatever kinds were chosen and whatever was cascaded.
C30_AmountsNullOrNonNegative ==
  \A i \in DOMAIN selectedProducts :
    /\ AmountOK(selectedProducts[i].discountValue)
    /\ \A j \in DOMAIN selectedProducts[i].variants :
         AmountOK(selectedProducts[i].variants[j].discountValue)

\* The text -5 was typed into a discount input and dropped, in a list in
\* which a group discount of 5 had been cascaded and a sub-item set to 0.
C30_Witness ==
  /\ lastCall.op = "dropped"
  /\ lastCall.text = <<"-", "5">>
  /\ \E i \in DOMAIN selectedProducts :
       /\ selectedProducts[i].discountValue = <<5>>
       /\ \E j, k \in DOMAIN selectedProducts[i].variants :
            /\ selectedProducts[i].variants[j].discountValue = <<5>>
            /\ selectedProducts[i].variants[k].discountValue = <<0>>

\* ------------------------------------------ claims on the life of entries
\* The keys of the entries the step takes out of the selection.
Destroyed == Keys(selectedVariants) \ Keys(selectedVariants')

\* The step is a click on the row of this very entry.
IsToggleDeselect ==
  /\ lastCall'.op = "toggle"
  /\ prevSelection'.one = selectedVariants
  /\ Destroyed = {lastCall'.key}

\* The step is a click on the header of a group all of whose variants were
\* selected, and takes out the entries of that group.
IsGroupDeselect ==
  /\ lastCall'.op = "selectAll"
  /\ prevSelection'.one = selectedVariants
  /\ Destroyed = AllVariantIds(lastCall'.key)

\* The step hides the picker.
IsCloseStep == isOpen /\ ~isOpen'

\* The step is the effect on a new debounced query.
IsQueryStep == debouncedSearchTerm' # debouncedSearchTerm

IsConfirmStep == isOpen /\ ~isOpen' /\ lastCall'.op = "addSelected"

C33_MetadataStaysWithItsEntity ==
  [][\A active \in Sortables(selectedProducts) :
       \A over \in Sortables(selectedProducts) \cup {NoDroppable} :
         IsDragEnd(active, over) =>
           IF active.type = "PRODUCT"
             THEN IsPermutation(selectedProducts, selectedProducts')
             ELSE /\ Len(selectedProducts') = Len(selectedProducts)
                  /\ \A i \in DOMAIN selectedProducts :
                       i # active.row =>
                         selectedProducts'[i] = selectedProducts[i]
                  /\ selectedProducts' =
                       [selectedProducts EXCEPT ![active.row].variants =
                          selectedProducts'[active.row].variants]
                  /\ IsPermutation(selectedProducts[active.row].variants,
                                   selectedProducts'[active.row].variants)]_vars

\* ------------------------------------------------- claims on the loading
\* C34: every load that sets isLoading to true is followed by a state with
\* isLoading false, provided the endpoint answers every fetch, with a page
\* or with an error: isLoading never stays true forever.
C34_LoadingEnds == isLoading ~> ~isLoading

\* A further page was asked for, which set isLoading, and its answer has
\* come: isLoading is false again.
C34_Witness ==
  /\ lastEvent = "resolve"
  /\ lastAnswered.reset = FALSE
  /\ isOpen
  /\ ~isLoading

\* C35: pageCursor is 1 plus the number of page responses applied since the
\* last reset of the current query: a reset, by a new query or by the close
\* of the picker, sets it to 1, every answer that is applied adds 1 to it,
\* and no other step changes it; the pages asked for a fixed query are then
\* 1, 2, 3, ... with none skipped and none asked for twice.
C35_CursorCountsAppliedPages ==
  [][/\ page' = IF IsQueryStep \/ IsCloseStep THEN 1
                ELSE IF IsAnswerStep THEN page + 1
                ELSE page
     /\ \A f \in inflight' \ inflight :
          /\ f.currentPage = page'
          /\ \A g \in inflight :
               g.seq >= seqAtReset' => g.currentPage # f.currentPage]_vars

\* --------------------------------------------- claims on the placeholders
\* C36: every group of the list that is a placeholder has no sub-item and a
\* null discount descriptor, and add-row appends exactly one such group at
\* the end of the list and leaves the groups that were there as they were.
C36_PlaceholdersStayEmpty ==
  [][/\ \A i \in DOMAIN selectedProducts' :
          selectedProducts'[i].isPlaceholder =>
            /\ selectedProducts'[i].variants = <<>>
            /\ selectedProducts'[i].discountType = NULL
            /\ selectedProducts'[i].discountValue = NoAmount
     /\ nextKey' # nextKey =>
          /\ Len(selectedProducts') = Len(selectedProducts) + 1
          /\ SubSeq(selectedProducts', 1, Len(selectedProducts)) =
               selectedProducts
          /\ selectedProducts'[Len(selectedProducts')].isPlaceholder
          /\ \A i \in DOMAIN selectedProducts :
               selectedProducts[i].localId #
                 selectedProducts'[Len(selectedProducts')].localId]_vars

\* A placeholder was added behind a group that carries a discount, and a
\* discount was then cascaded in that group once more: the placeholder is
\* still empty.
C36_Witness ==
  /\ lastCall.op = "discount"
  /\ lastCall.at = <<"PRODUCT", 1, 0>>
  /\ lastCall.value = <<5>>
  /\ Len(selectedProducts) = 2
  /\ selectedProducts[2].isPlaceholder
  /\ selectedProducts[2].localId = <<"placeholder", "-", 1>>
  /\ selectedProducts[1].variants[1].discountValue = <<5>>

\* C37: once the list holds a group it never becomes empty again under the
\* operations the interface offers: the remove button is there only while
\* the list holds more than one group, and the Add button of the picker is
\* enabled only while an entry is selected.
C37_ListNeverEmptiesAgain ==
  [][Len(selectedProducts) > 0 => Len(selectedProducts') > 0]_vars

\* Every key add-row may hand out was handed out and one row is left: a row
\* was removed, and the remove button is gone.
C37_Witness ==
  /\ nextKey = MaxKeys + 1
  /\ Len(selectedProducts) = 1
  /\ ~isOpen

\* ------------------------------------------- claims on the two revisions
\* C38: the two reorder implementations agree: for the sequence of the
\* groups and for the sub-item sequence of every group, and for every pair
\* of valid indexes old and new, splicing the element at old out and
\* splicing it in at new, found before the removal, gives the sequence
\* arrayMove gives.
C38_SpliceMoveIsArrayMove ==
  /\ \A old, new \in DOMAIN selectedProducts :
       SpliceMove(selectedProducts, old - 1, new - 1) =
         arrayMove(selectedProducts, old, new)
  /\ \A g \in DOMAIN selectedProducts :
       \A old, new \in DOMAIN selectedProducts[g].variants :
         SpliceMove(selectedProducts[g].variants, old - 1, new - 1) =
           arrayMove(selectedProducts[g].variants, old, new)

\* Drags have brought the group of three sub-items to the end of a full
\* list and its last sub-item to the front.
C38_Witness ==
  /\ Len(selectedProducts) = MaxRows
  /\ selectedProducts[MaxRows].localId = InputRow(1).localId
  /\ selectedProducts[MaxRows].variants[1].id = 3
  /\ selectedProducts[1].isPlaceholder

\* C39: materialize emits the groups in ascending order of the remote id of
\* the parent, whatever the order in which the entries were selected.
C39_MaterializeAscendingByParent ==
  lastCall.op = "addSelected" =>
    \A g1, g2 \in DOMAIN lastCall.rows :
      g1 < g2 => lastCall.rows[g1].apiId < lastCall.rows[g2].apiId

\* Entries of two remote groups were confirmed, the one with the greater id
\* selected first.
C39_Witness ==
  /\ lastCall.op = "addSelected"
  /\ Len(lastCall.rows) = 2
  /\ prevSelection.one[1].product_id >
       prevSelection.one[Len(prevSelection.one)].product_id

====
